---- MODULE Spec2Model ----
(***************************************************************************)
(* SpecTrail: the plan workflow (generate_plan and its tool-call loop),    *)
(* the run log it writes, and the retry loop of the chat client.           *)
(*                                                                         *)
(* Strings are modelled by where they come from and how long they are:     *)
(* [src, n, len, note].  src/n identify the text (the system prompt, the   *)
(* user prompt, the text of the n-th provider response, the result of tool *)
(* call n), len is its length in characters and note tells whether the     *)
(* "maximum tool call limit" note has been appended to it.                 *)
(***************************************************************************)
EXTENDS Integers, Sequences, FiniteSets, TLC

\* ------------------------------------------------------------------------
\* Program constants
\* ------------------------------------------------------------------------
MAX_TOOL_ITERATIONS == 12
MAX_CONTEXT_CHARS == 100000
\* truncate_messages: lists shorter than this are returned unchanged
TruncateMinLen == 3
\* truncate_messages: number of most recent messages kept
TruncateKeep == 6
\* length of the system prompt literal of build_initial_messages
SystemPromptLen == 1550
\* length of the user prompt template without the two interpolated fields
UserTemplateLen == 425
\* length of the note appended to final_plan, with max = 12 formatted in
NoteLen == 127

\* LlmClient: initial_interval, max_interval, max_elapsed_time of the
\* backoff and the timeout of the HTTP client, in milliseconds
InitialIntervalMs == 500
MaxIntervalMs == 4000
MaxElapsedMs == 30000
HttpTimeoutMs == 30000

\* ------------------------------------------------------------------------
\* Bounds of the model
\* ------------------------------------------------------------------------
\* tool calls the provider puts into one assistant turn
MaxCallsPerTurn == 2
\* number of times the environment departs from the plain turn (text
\* content, one accepted tool call, small result, log write succeeds)
MaxVariations == 1
\* summed length of task title and repository path: ordinary and very long
ShortInputLen == 40
LongInputLen == 200000
\* length of the text of a provider response
TextLen == 800
\* serialised length of a tool result: ordinary and a whole large file
SmallResultLen == 300
BigResultLen == 200000
\* serialised length of an {"error": ...} envelope
ErrorEnvelopeLen == 60
\* length of a plan artifact stored before the run
OldPlanLen == 500
\* time an HTTP request takes when the provider answers, in milliseconds
AnswerMs == 2500
\* members of a stored extra_headers object
MaxExtraHeaders == 2
\* upserts of artifacts in one history of the store
MaxUpserts == 4
\* pairs of one set_settings call, and calls in one history of the store
MaxPairs == 2
MaxSaves == 2
\* reads of the settings by another connection during one call
MaxReads == 1
\* calls of run_command in one history
MaxCommands == 2
\* calls of sanitize_path in one history
MaxResolves == 2

\* ids new_id() gives to rows of the tables
MaxRows == 4

\* commands started from the task view, and times the view is entered
MaxWorkflows == 3
MaxMounts == 3

\* settings updates around one run, and provider requests of the run
MaxSettingsUpdates == 2
MaxRequests == 3

\* tool calls of one run whose repository is followed
MaxToolRuns == 2

\* ------------------------------------------------------------------------
\* Values
\* ------------------------------------------------------------------------
Str(src, n, len) == [src |-> src, n |-> n, len |-> len, note |-> FALSE]

\* String::new()
EmptyStr == Str("empty", 0, 0)

\* Option<T>
None == [some |-> FALSE, val |-> EmptyStr]
Some(v) == [some |-> TRUE, val |-> v]

\* Option<Vec<ToolCall>> and Option<String> for tool_call_id
NoCalls == [some |-> FALSE, val |-> <<>>]
SomeCalls(cs) == [some |-> TRUE, val |-> cs]
NoId == <<>>

\* Option::unwrap_or_default on Option<String>
unwrap_or_default(opt) == IF opt.some THEN opt.val ELSE EmptyStr

\* String::is_empty
is_empty(s) == s.len = 0

\* struct ChatMessage
ChatMessage(role, content, tool_call_id, tool_calls) ==
    [role |-> role, content |-> content,
     tool_call_id |-> tool_call_id, tool_calls |-> tool_calls]

\* a row of table messages.  role and content are the stored columns;
\* tool_call_id and tool_calls are not columns of the table: they record
\* which chat message the row was written for.
MessageRow(role, content, tool_call_id, tool_calls) ==
    [role |-> role, content |-> content,
     tool_call_id |-> tool_call_id, tool_calls |-> tool_calls]

\* a row of table tool_calls
ToolCallRow(id, name, is_error) ==
    [call |-> id, name |-> name, is_error |-> is_error]

\* ------------------------------------------------------------------------
\* State
\* ------------------------------------------------------------------------
VARIABLES
    pc,               \* position of generate_plan
    iteration,        \* loop variable of the for loop
    messages,         \* the context list sent to the provider
    response,         \* LlmResponse of the current turn
    pending,          \* tool calls of the turn not yet executed
    tool_calls_count,
    truncated,
    final_plan,
    result,           \* what generate_plan returned to its caller
    run,              \* the row of table runs created for this call
    db_messages,      \* rows of table messages of the run, in insertion order
    db_tool_calls,    \* rows of table tool_calls of the run
    artifact,         \* the plan_md artifact of the task
    artifact0,        \* the plan_md artifact of the task before the call
    requests,         \* number of chat_with_tools calls issued
    responses,        \* number of successful provider responses received
    llm_error,        \* the error the last chat_with_tools call ended with
    before,           \* context list at the last loop head, before pruning
    sent,             \* context list handed to the last chat_with_tools call
    variations,       \* departures from the plain turn used so far
    http,             \* state of one LlmClient::chat call
    store,            \* tables artifacts and settings, and the commands on them
    repo              \* a repository on disk and the tool working on it

loopVars == <<pc, iteration, messages, response, pending, tool_calls_count,
              truncated, final_plan, result, run, db_messages, db_tool_calls,
              artifact, artifact0, requests, responses, llm_error, before,
              sent, variations>>

vars == <<loopVars, http, store, repo>>

\* ------------------------------------------------------------------------
\* Pure functions of workflows/plan.rs
\* ------------------------------------------------------------------------
RECURSIVE SumLen(_)
\* messages.iter().map(|m| m.content.map_or(0, |c| c.len())).sum()
SumLen(ms) ==
    IF ms = <<>> THEN 0
    ELSE (IF Head(ms).content.some THEN Head(ms).content.val.len ELSE 0)
         + SumLen(Tail(ms))

context_size(ms) == SumLen(ms)

\* messages.into_iter().rev().take(n).rev()
LastN(ms, n) ==
    IF Len(ms) <= n THEN ms ELSE SubSeq(ms, Len(ms) - n + 1, Len(ms))

truncate_messages(ms) ==
    IF Len(ms) < TruncateMinLen THEN ms
    ELSE <<ms[1]>> \o LastN(ms, TruncateKeep)

\* the range of the for loop taken one too far
LoopContinuesOffByOne(it) == it <= MAX_TOOL_ITERATIONS

\* for iteration in 0..MAX_TOOL_ITERATIONS
LoopContinues(it) == it < MAX_TOOL_ITERATIONS

\* the inner for loop never sees the end of tool_calls
MoreCallsNeverEnds(p) == TRUE

\* for tool_call in tool_calls: there is a call after the one just handled
MoreCalls(p) == Tail(p) # <<>>

build_initial_messages(inputLen) ==
    << ChatMessage("system", Some(Str("system", 0, SystemPromptLen)), NoId, NoCalls),
       ChatMessage("user", Some(Str("user", 0, UserTemplateLen + inputLen)), NoId, NoCalls) >>

\* the format! of the truncation note
with_note(plan) == [plan EXCEPT !.len = plan.len + NoteLen, !.note = TRUE]

\* the condition under which the note is added
hit_limit(count, plan) == count >= MAX_TOOL_ITERATIONS /\ is_empty(plan)

PlanError(code, message) ==
    [kind |-> "err", code |-> code, message |-> message,
     plan_md |-> EmptyStr, tool_calls_count |-> 0, truncated |-> FALSE]

PlanResult(plan, count, trunc) ==
    [kind |-> "ok", code |-> "", message |-> "",
     plan_md |-> plan, tool_calls_count |-> count, truncated |-> trunc]

NoResult ==
    [kind |-> "none", code |-> "", message |-> "",
     plan_md |-> EmptyStr, tool_calls_count |-> 0, truncated |-> FALSE]

\* ------------------------------------------------------------------------
\* Tools
\* ------------------------------------------------------------------------
\* the names dispatch_repo_tool routes
RegisteredTools ==
    {"list_files", "read_file", "grep", "git_status", "git_diff",
     "git_log_short", "run_command"}

\* names the provider asks for in the model: a registered one and an unknown one
RequestedNames == {"list_files", "frobnicate"}

\* the arguments string of a tool call, by what becomes of it:
\*   "valid"    a JSON object the tool accepts
\*   "rejected" JSON the tool refuses (missing or invalid field, path
\*              escape, disallowed command)
\*   "notjson"  not JSON at all
ArgumentClasses == {"valid", "rejected", "notjson"}

\* serde_json::from_str(&tool_call.function.arguments) succeeds
parses_as_json(arguments) == arguments # "notjson"

\* dispatch_repo_tool: TRUE when the tool returns Ok
dispatch_repo_tool(name, arguments) ==
    name \in RegisteredTools /\ arguments = "valid"

\* execute_repo_tool: runs the tool and writes its ToolCall row.
\* The value is the Result it returns and the row it appends.  available
\* tells whether the repository root of the project can be read; when it
\* cannot, the tool returns Err.
execute_repo_tool(call, available) ==
    LET ok == available /\ dispatch_repo_tool(call.name, call.arguments)
    IN  [ok |-> ok, row |-> ToolCallRow(call.id, call.name, ~ok)]

\* execute_single_tool: [ok, content] where ok = FALSE is Err(INVALID_ARGS),
\* and rows are the ToolCall rows written on the way.  resultLen is the
\* serialised length of the value the tool returns when it succeeds.
execute_single_tool(call, resultLen, available) ==
    IF ~parses_as_json(call.arguments)
    THEN [ok |-> FALSE, content |-> EmptyStr, rows |-> <<>>]
    ELSE LET r == execute_repo_tool(call, available)
         IN  [ok |-> TRUE,
              content |-> IF r.ok THEN Str("tool_result", call.id, resultLen)
                          ELSE Str("tool_error", call.id, ErrorEnvelopeLen),
              rows |-> <<r.row>>]

\* ------------------------------------------------------------------------
\* The environment's choices
\* ------------------------------------------------------------------------
\* what LlmClient can fail with, by the Display text of the LlmError
LlmErrors ==
    {"API error 401: Invalid API key", "Rate limited", "Timeout"}

\* the unknown name is asked for with valid arguments only: dispatch never
\* looks at the arguments of a name it does not route
CallKinds ==
    {k \in [name : RequestedNames, arguments : ArgumentClasses] :
        k.name \in RegisteredTools \/ k.arguments = "valid"}

CallLists == UNION {[1..n -> CallKinds] : n \in 1..MaxCallsPerTurn}

\* a call other than the plain one uses up one variation, unless it ends the run
CallCost(k) ==
    IF k.arguments = "notjson" THEN 0
    ELSE IF k.name = "list_files" /\ k.arguments = "valid" THEN 0 ELSE 1

RECURSIVE ListCost(_)
ListCost(ks) == IF ks = <<>> THEN 0 ELSE CallCost(Head(ks)) + ListCost(Tail(ks))

\* cost of a response that carries tool calls
ResponseCost(content, ks) ==
    (IF content.some THEN 0 ELSE 1) + (Len(ks) - 1) + ListCost(ks)

\* the provider numbers its calls: turn and position in the turn
WithIds(ks, turn) ==
    [i \in 1..Len(ks) |->
        [id |-> <<turn, i>>, name |-> ks[i].name, arguments |-> ks[i].arguments]]

\* contents a response can carry: none or a text
Contents(turn) == {None, Some(Str("llm", turn, TextLen))}

\* responses without tool calls: tool_calls absent, or present and empty
FinalResponses(turn) ==
    {[content |-> c, tool_calls |-> NoCalls] : c \in Contents(turn)}
    \cup {[content |-> Some(Str("llm", turn, TextLen)), tool_calls |-> SomeCalls(<<>>)]}

LlmResponse(content, tool_calls) == [content |-> content, tool_calls |-> tool_calls]

\* the turn of this response has already departed from the plain turn; a
\* failed write of a tool message that is not its last uses up nothing more
TurnDeparted(resp) ==
    \/ ~resp.content.some
    \/ Len(resp.tool_calls.val) > 1
    \/ \E i \in 1..Len(resp.tool_calls.val) :
          CallCost([name |-> resp.tool_calls.val[i].name,
                    arguments |-> resp.tool_calls.val[i].arguments]) > 0

NoResponse == LlmResponse(None, NoCalls)

\* ------------------------------------------------------------------------
\* Initial state: before generate_plan is called
\* ------------------------------------------------------------------------
HttpIdle == [pc |-> "unused"]

LoopInit ==
    /\ pc = "idle"
    /\ iteration = 0
    /\ messages = <<>>
    /\ response = NoResponse
    /\ pending = <<>>
    /\ tool_calls_count = 0
    /\ truncated = FALSE
    /\ final_plan = EmptyStr
    /\ result = NoResult
    /\ run = [created |-> FALSE, ended_at |-> FALSE]
    /\ db_messages = <<>>
    /\ db_tool_calls = <<>>
    /\ artifact \in {None, Some(Str("old_plan", 0, OldPlanLen))}
    /\ artifact0 = artifact
    /\ requests = 0
    /\ responses = 0
    /\ llm_error = ""
    /\ before = <<>>
    /\ sent = <<>>
    /\ variations = 0

\* the store and the repository are not part of this workflow's steps
StoreIdle == [pc |-> "unused"]
RepoIdle == [pc |-> "unused"]

\* the repository of the project, as the tools of the workflow find it
RepoRoot == [pc |-> "root", available |-> TRUE]

Init == LoopInit /\ http = HttpIdle /\ store = StoreIdle /\ repo = RepoRoot

\* ------------------------------------------------------------------------
\* generate_plan
\* ------------------------------------------------------------------------
Fail(code, message) ==
    /\ pc' = "error"
    /\ result' = PlanError(code, message)

\* steps 1-4: look up task and project, read the settings and the key,
\* create the run, build the seed messages
StartPlan ==
    /\ pc = "idle"
    /\ \/ /\ \E code \in {"TASK_NOT_FOUND", "PROJECT_NOT_FOUND", "NO_API_KEY",
                          "RUN_CREATE_ERROR"} : Fail(code, "")
          /\ UNCHANGED <<iteration, messages, response, pending,
                         tool_calls_count, truncated, final_plan, run,
                         db_messages, db_tool_calls, artifact, artifact0,
                         requests, responses, llm_error, before, sent,
                         variations, http, store,
                         repo>>
       \/ /\ \E inputLen \in {ShortInputLen, LongInputLen} :
                messages' = build_initial_messages(inputLen)
          /\ run' = [created |-> TRUE, ended_at |-> FALSE]
          /\ pc' = "loop_head"
          /\ UNCHANGED <<iteration, response, pending, tool_calls_count,
                         truncated, final_plan, result, db_messages,
                         db_tool_calls, artifact, artifact0, requests,
                         responses, llm_error, before, sent, variations, http, store,
                         repo>>

\* head of the for loop: check the context size, prune, call the provider
CallLlm ==
    /\ pc = "loop_head"
    /\ LoopContinues(iteration)
    /\ LET prune == context_size(messages) > MAX_CONTEXT_CHARS
           ms == IF prune THEN truncate_messages(messages) ELSE messages
       IN  /\ truncated' = (truncated \/ prune)
           /\ messages' = ms
           /\ sent' = ms
    /\ before' = messages
    /\ requests' = requests + 1
    /\ pc' = "await_llm"
    /\ UNCHANGED <<iteration, response, pending, tool_calls_count, final_plan,
                   result, run, db_messages, db_tool_calls, artifact,
                   artifact0, responses, llm_error, variations, http, store,
                         repo>>

\* the for loop runs out of iterations
LoopExhausted ==
    /\ pc = "loop_head"
    /\ ~LoopContinues(iteration)
    /\ pc' = "save_plan"
    /\ UNCHANGED <<iteration, messages, response, pending, tool_calls_count,
                   truncated, final_plan, result, run, db_messages,
                   db_tool_calls, artifact, artifact0, requests, responses,
                   llm_error, before, sent, variations, http, store, repo>>

\* chat_with_tools returns: an error, or a response
LlmReturns ==
    /\ pc = "await_llm"
    /\ \/ /\ \E e \in LlmErrors :
                /\ llm_error' = e
                /\ Fail("LLM_ERROR", e)
          /\ UNCHANGED <<response, responses, variations>>
       \/ /\ response' \in FinalResponses(iteration + 1)
          /\ responses' = responses + 1
          /\ pc' = "log_assistant"
          /\ UNCHANGED <<result, llm_error, variations>>
       \/ /\ \E content \in Contents(iteration + 1) :
             \E ks \in CallLists :
                /\ variations + ResponseCost(content, ks) <= MaxVariations
                /\ variations' = variations + ResponseCost(content, ks)
                /\ response' = LlmResponse(content,
                                           SomeCalls(WithIds(ks, iteration + 1)))
          /\ responses' = responses + 1
          /\ pc' = "log_assistant"
          /\ UNCHANGED <<result, llm_error>>
    /\ UNCHANGED <<iteration, messages, pending, tool_calls_count, truncated,
                   final_plan, run, db_messages, db_tool_calls, artifact,
                   artifact0, requests, before, sent, http, store, repo>>

\* what follows the logging of the assistant message: the branch on tool_calls
AfterAssistant ==
    IF response.tool_calls.some /\ response.tool_calls.val # <<>>
    THEN /\ tool_calls_count' = tool_calls_count + Len(response.tool_calls.val)
         /\ pending' = response.tool_calls.val
         /\ pc' = "exec_tool"
         /\ UNCHANGED final_plan
    ELSE /\ final_plan' = unwrap_or_default(response.content)
         /\ pc' = "save_plan"
         /\ UNCHANGED <<tool_calls_count, pending>>

\* "Log assistant message": add_message when the response has content
LogAssistant ==
    /\ pc = "log_assistant"
    /\ \/ /\ response.content.some
          /\ db_messages' = Append(db_messages,
                MessageRow("assistant", response.content.val, NoId,
                           response.tool_calls))
          /\ AfterAssistant
          /\ UNCHANGED result
       \/ /\ response.content.some
          /\ Fail("LOG_ERROR", "")
          /\ UNCHANGED <<db_messages, tool_calls_count, pending, final_plan>>
       \/ /\ ~response.content.some
          /\ AfterAssistant
          /\ UNCHANGED <<db_messages, result>>
    /\ UNCHANGED <<iteration, messages, response, truncated, run,
                   db_tool_calls, artifact, artifact0, requests, responses,
                   llm_error, before, sent, variations, http, store, repo>>

\* execute_single_tool for the next call of the turn, then
\* messages.push(tool_message)
ExecTool ==
    /\ pc = "exec_tool"
    /\ pending # <<>>
    /\ \E resultLen \in {SmallResultLen, BigResultLen} :
         LET call == Head(pending)
             r == execute_single_tool(call, resultLen, repo.available)
             cost == IF resultLen = BigResultLen THEN 1 ELSE 0
         IN  /\ variations + cost <= MaxVariations
             /\ variations' = variations + cost
             /\ db_tool_calls' = db_tool_calls \o r.rows
             /\ IF r.ok
                THEN /\ messages' = Append(messages,
                           ChatMessage("tool", Some(r.content), call.id, NoCalls))
                     /\ pc' = "log_tool"
                     /\ UNCHANGED result
                ELSE /\ Fail("INVALID_ARGS", "Failed to parse tool args")
                     /\ UNCHANGED messages
    /\ UNCHANGED <<iteration, response, pending, tool_calls_count, truncated,
                   final_plan, run, db_messages, artifact, artifact0, requests,
                   responses, llm_error, before, sent, http, store, repo>>

\* the repository root vanishes or becomes unreadable before a tool runs
RepoVanishes ==
    /\ pc = "exec_tool"
    /\ repo.available
    /\ variations < MaxVariations
    /\ variations' = variations + 1
    /\ repo' = [repo EXCEPT !.available = FALSE]
    /\ UNCHANGED <<pc, iteration, messages, response, pending,
                   tool_calls_count, truncated, final_plan, result, run,
                   db_messages, db_tool_calls, artifact, artifact0, requests,
                   responses, llm_error, before, sent, http, store>>

\* "Log to database": add_message(...).await.ok(), then the next call of the
\* turn or, after the last one, messages.push(assistant) and the next iteration
LogTool ==
    /\ pc = "log_tool"
    /\ LET m == messages[Len(messages)]
       IN  \/ /\ db_messages' = Append(db_messages,
                    MessageRow("tool", unwrap_or_default(m.content),
                               m.tool_call_id, NoCalls))
              /\ UNCHANGED variations
           \/ /\ LET cost == IF TurnDeparted(response) /\ MoreCalls(pending)
                              THEN 0 ELSE 1
                 IN  /\ variations + cost <= MaxVariations
                     /\ variations' = variations + cost
              /\ UNCHANGED db_messages
    /\ pending' = Tail(pending)
    /\ IF MoreCalls(pending)
       THEN /\ pc' = "exec_tool"
            /\ UNCHANGED <<messages, iteration>>
       ELSE /\ messages' = Append(messages,
                  ChatMessage("assistant", response.content, NoId,
                              response.tool_calls))
            /\ iteration' = iteration + 1
            /\ pc' = "loop_head"
    /\ UNCHANGED <<response, tool_calls_count, truncated, final_plan, result,
                   run, db_tool_calls, artifact, artifact0, requests,
                   responses, llm_error, before, sent, http, store, repo>>

\* after the loop: add the note when the limit was hit, upsert the artifact,
\* return
SavePlan ==
    /\ pc = "save_plan"
    /\ LET limit == hit_limit(tool_calls_count, final_plan)
           plan == IF limit THEN with_note(final_plan) ELSE final_plan
           trunc == truncated \/ limit
       IN  /\ final_plan' = plan
           /\ truncated' = trunc
           /\ \/ /\ artifact' = Some(plan)
                 /\ result' = PlanResult(plan, tool_calls_count, trunc)
                 /\ pc' = "done"
              \/ /\ Fail("ARTIFACT_ERROR", "")
                 /\ UNCHANGED artifact
    /\ UNCHANGED <<iteration, messages, response, pending, tool_calls_count,
                   run, db_messages, db_tool_calls, artifact0, requests,
                   responses, llm_error, before, sent, variations, http, store,
                         repo>>

Next ==
    \/ StartPlan
    \/ CallLlm
    \/ LoopExhausted
    \/ LlmReturns
    \/ LogAssistant
    \/ ExecTool
    \/ RepoVanishes
    \/ LogTool
    \/ SavePlan

Spec == Init /\ [][Next]_vars

\* every step of the workflow that is waiting on the provider, a tool or the
\* database eventually returns
SpecLive == Init /\ [][Next]_vars /\ WF_vars(Next)

\* ------------------------------------------------------------------------
\* LlmClient::chat: one call, with the retry loop around the HTTP request
\* ------------------------------------------------------------------------
\* what one HTTP request ends with: 0 stands for a transport error
\* (send() or the decoding of the body fails), otherwise the HTTP status
NetworkError == 0
Outcomes == {NetworkError, 200, 400, 401, 403, 404, 422, 429, 500, 503}

is_success(status) == status \in 200..299

\* the Err the operation closure returns for a request that did not succeed
OperationError(status) ==
    IF status = NetworkError THEN "Http"
    ELSE IF status = 429 THEN "RateLimited"
    ELSE IF status = 401 THEN "Api 401: Invalid API key"
    ELSE IF status >= 500 THEN "Api 5xx"
    ELSE "Api 4xx"

\* The closure hands every failure to retry() as a bare LlmError: no arm of
\* its match marks an error as permanent or as transient.  How retry() takes
\* a bare error is therefore not fixed by the closure; it is one of the two
\* ways the backoff crate knows, the same for every error of a call.
RetryPolicies == {"transient", "permanent"}

\* retry(): after a failed request, is there another attempt?
RetryAgain(policy, error, elapsed) ==
    policy = "transient" /\ elapsed <= MaxElapsedMs

\* ExponentialBackoff: the interval after this one (multiplier 1.5)
NextInterval(interval) ==
    IF (interval * 3) \div 2 > MaxIntervalMs THEN MaxIntervalMs
    ELSE (interval * 3) \div 2

\* the key the client was constructed with
ApiKey == "sk-configured"

\* format!("Bearer {}", api_key)
Bearer(key) == <<"Bearer", key>>

\* keys a stored extra_headers object can have; the last is not a legal
\* header name
HeaderKeys == {"Authorization", "authorization", "X-Custom-Header", "bad header"}

\* JSON values of such a key: two strings and a value that is not a string
JsonValues ==
    {[is_str |-> TRUE, text |-> <<"Bearer", "test123">>],
     [is_str |-> TRUE, text |-> <<"value">>],
     [is_str |-> FALSE, text |-> <<>>]}

\* the objects of at most MaxExtraHeaders members, as the list of members in
\* the order the object is iterated; the keys of an object are distinct
ExtraHeaderObjects ==
    {eh \in UNION {[1..n -> [key : HeaderKeys, value : JsonValues]] :
                      n \in 0..MaxExtraHeaders} :
        \A i, j \in 1..Len(eh) : i # j => eh[i].key # eh[j].key}

\* HeaderName::from_bytes: a legal name is accepted in any letter case and
\* is held in lower case
HeaderName_from_bytes(key) ==
    CASE key = "Authorization" -> [ok |-> TRUE, name |-> "authorization"]
      [] key = "authorization" -> [ok |-> TRUE, name |-> "authorization"]
      [] key = "X-Custom-Header" -> [ok |-> TRUE, name |-> "x-custom-header"]
      [] OTHER -> [ok |-> FALSE, name |-> ""]

HeaderNames == {"authorization", "content-type", "x-custom-header"}
Absent == <<>>

\* HeaderMap::insert: the value replaces the one the name had
HeaderInsert(headers, name, value) == [headers EXCEPT ![name] = value]

RECURSIVE insert_extra_headers(_, _)
\* "Add extra headers from config"
insert_extra_headers(headers, members) ==
    IF members = <<>> THEN headers
    ELSE LET m == Head(members)
             n == HeaderName_from_bytes(m.key)
         IN  insert_extra_headers(
                 IF m.value.is_str /\ n.ok
                 THEN HeaderInsert(headers, n.name, m.value.text)
                 ELSE headers,
                 Tail(members))

\* the HeaderMap the operation closure builds for a request
request_headers(api_key, extra_headers) ==
    insert_extra_headers(
        HeaderInsert(
            HeaderInsert([n \in HeaderNames |-> Absent],
                         "authorization", Bearer(api_key)),
            "content-type", <<"application/json">>),
        extra_headers)

HttpReady ==
    [pc |-> "ready", attempts |-> 0, elapsed |-> 0,
     interval |-> InitialIntervalMs, policy |-> "transient",
     last |-> 200, result |-> "none",
     extra_headers |-> <<>>, headers |-> [n \in HeaderNames |-> Absent]]

\* a client constructed from any stored configuration
ChatInit ==
    /\ LoopInit
    /\ http \in {[HttpReady EXCEPT !.extra_headers = eh] : eh \in ExtraHeaderObjects}
    /\ store = StoreIdle
    /\ repo = RepoIdle

\* chat(): the api_key check, then the first pass through retry()
ChatStart ==
    /\ http.pc = "ready"
    /\ \/ http' = [http EXCEPT !.pc = "returned", !.result = "MissingApiKey"]
       \/ \E policy \in RetryPolicies :
             http' = [http EXCEPT !.pc = "send", !.policy = policy]
    /\ UNCHANGED <<loopVars, store, repo>>

\* the operation closure: one POST to /chat/completions and its outcome
ChatSend ==
    /\ http.pc = "send"
    /\ \E status \in Outcomes :
       \E took \in (IF status = NetworkError THEN {AnswerMs, HttpTimeoutMs}
                    ELSE {AnswerMs}) :
          LET elapsed == http.elapsed + took
          IN  http' = [http EXCEPT
                  !.attempts = @ + 1,
                  !.headers = request_headers(ApiKey, http.extra_headers),
                  !.elapsed = elapsed,
                  !.last = status,
                  !.pc = IF is_success(status) THEN "returned"
                         ELSE IF RetryAgain(http.policy, OperationError(status), elapsed)
                              THEN "sleep" ELSE "returned",
                  !.result = IF is_success(status) THEN "Ok"
                             ELSE IF RetryAgain(http.policy, OperationError(status), elapsed)
                                  THEN "none" ELSE OperationError(status)]
    /\ UNCHANGED <<loopVars, store, repo>>

\* the wait between two attempts
ChatSleep ==
    /\ http.pc = "sleep"
    /\ http' = [http EXCEPT !.pc = "send",
                            !.elapsed = @ + http.interval,
                            !.interval = NextInterval(http.interval)]
    /\ UNCHANGED <<loopVars, store, repo>>

ChatNext == ChatStart \/ ChatSend \/ ChatSleep

ChatSpec == ChatInit /\ [][ChatNext]_vars

\* thiserror's Display of an LlmError, as e.to_string() gives it
Display(error) ==
    CASE error = "MissingApiKey" -> "Missing API key"
      [] error = "Http" -> "HTTP error"
      [] error = "RateLimited" -> "Rate limited"
      [] error = "Timeout" -> "Timeout"
      [] error = "Api 401: Invalid API key" -> "API error 401: Invalid API key"
      [] error = "Api 5xx" -> "API error 5xx"
      [] OTHER -> "API error 4xx"

\* generate_plan's map_err on the result of chat_with_tools: the envelope
\* the caller of the command receives for an LlmError
llm_error_envelope(error) == PlanError("LLM_ERROR", Display(error))

\* ------------------------------------------------------------------------
\* Table artifacts and the command upsert_artifact
\* ------------------------------------------------------------------------
Tasks == {"task1", "task2"}

\* a text with or without white space around it
Text(text, padded) == [text |-> text, padded |-> padded]
PlanTexts == {Text(t, padded) : t \in {"plan A", "plan B"}, padded \in BOOLEAN}

\* String.prototype.trim
trim(c) == [c EXCEPT !.padded = FALSE]

\* a row of table artifacts
ArtifactRow(id, task_id, kind, content, created_at) ==
    [id |-> id, task_id |-> task_id, phase_id |-> "null", kind |-> kind,
     content |-> content, created_at |-> created_at]

\* positions of the rows of a (task_id, kind) pair
RowsOf(rows, task_id, kind) ==
    {i \in 1..Len(rows) : rows[i].task_id = task_id /\ rows[i].kind = kind}

\* an upsert that inserts a new row every time, which the table accepts:
\* its only key is id
upsert_artifact_inserts(rows, task_id, kind, content, now) ==
    Append(rows, ArtifactRow(Len(rows) + 1, task_id, kind, content, now))

\* an upsert that leaves the row a (task_id, kind) pair already has
upsert_artifact_ignores(rows, task_id, kind, content, now) ==
    IF RowsOf(rows, task_id, kind) = {}
    THEN Append(rows, ArtifactRow(Len(rows) + 1, task_id, kind, content, now))
    ELSE rows

\* upsert_artifact: the row of the (task_id, kind) pair gets the new content
\* and a new created_at; a pair without a row gets a row
upsert_artifact(rows, task_id, kind, content, now) ==
    IF RowsOf(rows, task_id, kind) = {}
    THEN Append(rows, ArtifactRow(Len(rows) + 1, task_id, kind, content, now))
    ELSE [i \in 1..Len(rows) |->
            IF i \in RowsOf(rows, task_id, kind)
            THEN [rows[i] EXCEPT !.content = content, !.created_at = now]
            ELSE rows[i]]

NoText == Text("", FALSE)

\* list_artifacts: the rows of the task
list_artifacts(rows, task_id) ==
    SelectSeq(rows, LAMBDA a : a.task_id = task_id)

NoArtifact == ArtifactRow(0, "", "", NoText, 0)

\* TaskDetail.planArtifact: artifacts.find(a => a.kind === "plan_md") ?? null
planArtifact(artifacts) ==
    LET found == SelectSeq(artifacts, LAMBDA a : a.kind = "plan_md")
    IN  IF found = <<>> THEN NoArtifact ELSE found[1]

\* what the last command gave back to its caller: PlanResult.plan_md of a
\* generate_plan on a task, or nothing
NoPlan == [task_id |-> "", plan_md |-> NoText]

\* an empty table; latest is the content of the last upsert of each pair,
\* last_task the task of the last upsert, and twice tells that the last
\* upsert had the task, kind and content of the one before it
ArtifactsReady ==
    [pc |-> "artifacts", rows |-> <<>>, clock |-> 0,
     latest |-> [t \in Tasks |-> NoText], returned |-> NoPlan,
     last_task |-> "", twice |-> FALSE]

ArtifactInit ==
    /\ LoopInit
    /\ http = HttpIdle
    /\ repo = RepoIdle
    /\ store = ArtifactsReady

Upserted(task_id, kind, content, returned) ==
    /\ store.clock < MaxUpserts
    /\ store' = [store EXCEPT
          !.rows = upsert_artifact(@, task_id, kind, content, store.clock + 1),
          !.clock = @ + 1,
          !.latest[task_id] = content,
          !.returned = returned,
          !.last_task = task_id,
          !.twice = (store.last_task = task_id
                        /\ store.latest[task_id] = content)]
    /\ UNCHANGED <<loopVars, http, repo>>

\* step 7 of generate_plan: the final plan is saved as it is, and it is the
\* plan_md of the PlanResult
PlanSaved ==
    /\ store.pc = "artifacts"
    /\ \E t \in Tasks : \E final_plan_text \in PlanTexts :
          Upserted(t, "plan_md", final_plan_text,
                   [task_id |-> t, plan_md |-> final_plan_text])

\* TaskDetail.onSavePlan: the draft is saved trimmed
onSavePlan ==
    /\ store.pc = "artifacts"
    /\ \E t \in Tasks : \E draftPlan \in PlanTexts :
          Upserted(t, "plan_md", trim(draftPlan), NoPlan)

ArtifactNext == PlanSaved \/ onSavePlan

ArtifactSpec == ArtifactInit /\ [][ArtifactNext]_vars

\* ------------------------------------------------------------------------
\* Table settings and the command set_settings
\* ------------------------------------------------------------------------
SettingKeys == {"model", "temperature"}
SettingValues == {"v1", "v2"}
Unset == "unset"

\* Vec<SettingInput>: the pairs of one call, keys may repeat
PairLists ==
    UNION {[1..n -> [key : SettingKeys, value : SettingValues]] : n \in 1..MaxPairs}

\* INSERT ... ON CONFLICT(key) DO UPDATE SET value = excluded.value
upsert_setting(table, pair) == [table EXCEPT ![pair.key] = pair.value]

RECURSIVE upsert_all(_, _)
\* the table after every pair of the list has been upserted in order
upsert_all(table, pairs) ==
    IF pairs = <<>> THEN table
    ELSE upsert_all(upsert_setting(table, Head(pairs)), Tail(pairs))

\* the statement run on the connection itself: committed as it is executed
conn_execute(committed, tx, pair) ==
    [committed |-> upsert_setting(committed, pair), tx |-> upsert_setting(tx, pair)]

\* tx.execute: the statement changes the transaction's view only
tx_execute(committed, tx, pair) ==
    [committed |-> committed, tx |-> upsert_setting(tx, pair)]

\* committed is what every other connection reads; tx is the view of the
\* open transaction; before and all record the call for the properties;
\* seen is what get_settings last returned to a reader during the call and
\* reads the number of such reads
SettingsReady ==
    [pc |-> "settings", committed |-> [k \in SettingKeys |-> Unset],
     tx |-> [k \in SettingKeys |-> Unset], pairs |-> <<>>, all |-> <<>>,
     before |-> [k \in SettingKeys |-> Unset],
     seen |-> [k \in SettingKeys |-> Unset],
     reads |-> 0, applied |-> 0, outcome |-> "none", saves |-> 0]

SettingsInit ==
    /\ LoopInit
    /\ http = HttpIdle
    /\ repo = RepoIdle
    /\ store = SettingsReady

\* what the call leaves behind when it returns Err: the Transaction is
\* dropped without commit, which rolls it back
returns_err(st) == [st EXCEPT !.pc = "settings", !.outcome = "err", !.tx = st.committed]

\* set_settings: db::connect and conn.transaction()
set_settings_begin ==
    /\ store.pc = "settings"
    /\ store.saves < MaxSaves
    /\ \E pairs \in PairLists :
         LET called == [store EXCEPT !.saves = @ + 1, !.pairs = pairs,
                                     !.all = pairs, !.before = store.committed,
                                     !.seen = store.committed, !.reads = 0,
                                     !.applied = 0,
                                     !.tx = store.committed, !.outcome = "none"]
         IN  \/ store' = [called EXCEPT !.pc = "in_tx"]
             \/ store' = returns_err(called)
    /\ UNCHANGED <<loopVars, http, repo>>

\* one pass of the for loop: tx.execute(...)?
set_settings_execute ==
    /\ store.pc = "in_tx"
    /\ store.pairs # <<>>
    /\ \/ LET r == tx_execute(store.committed, store.tx, Head(store.pairs))
          IN  store' = [store EXCEPT !.committed = r.committed, !.tx = r.tx,
                                     !.pairs = Tail(@), !.applied = @ + 1]
       \/ store' = returns_err(store)
    /\ UNCHANGED <<loopVars, http, repo>>

\* tx.commit()?
set_settings_commit ==
    /\ store.pc = "in_tx"
    /\ store.pairs = <<>>
    /\ \/ store' = [store EXCEPT !.pc = "settings", !.outcome = "ok",
                                  !.committed = store.tx]
       \/ store' = returns_err(store)
    /\ UNCHANGED <<loopVars, http, repo>>

\* get_settings on another connection while the call is under way
get_settings ==
    /\ store.pc = "in_tx"
    /\ store.reads < MaxReads
    /\ store' = [store EXCEPT !.seen = store.committed, !.reads = @ + 1]
    /\ UNCHANGED <<loopVars, http, repo>>

SettingsNext ==
    \/ set_settings_begin
    \/ set_settings_execute
    \/ set_settings_commit
    \/ get_settings

SettingsSpec == SettingsInit /\ [][SettingsNext]_vars

\* ------------------------------------------------------------------------
\* RepoTools::run_command
\* ------------------------------------------------------------------------
\* A command string is the sequence of its pieces: " " is white space, any
\* other piece is a run of characters without white space.  Two pieces next
\* to each other without " " between them belong to the same word.
SP == " "

ALLOWED_COMMANDS ==
    { <<"npm", SP, "test">>, <<"pnpm", SP, "test">>, <<"yarn", SP, "test">>,
      <<"cargo", SP, "test">>, <<"pytest">>,
      <<"python", SP, "-m", SP, "pytest">>,
      <<"npm", SP, "run", SP, "lint">>, <<"pnpm", SP, "lint">>,
      <<"cargo", SP, "clippy">>, <<"cargo", SP, "build">>,
      <<"npm", SP, "run", SP, "build">>, <<"pnpm", SP, "build">> }

\* str::starts_with
starts_with(str, prefix) ==
    Len(prefix) <= Len(str) /\ SubSeq(str, 1, Len(prefix)) = prefix

RECURSIVE split_from(_, _, _)
\* str::split_whitespace: the words of the string, each the sequence of its
\* pieces; word is the word being read
split_from(str, word, words) ==
    IF str = <<>>
    THEN IF word = <<>> THEN words ELSE Append(words, word)
    ELSE IF Head(str) = SP
         THEN split_from(Tail(str), <<>>,
                         IF word = <<>> THEN words ELSE Append(words, word))
         ELSE split_from(Tail(str), Append(word, Head(str)), words)

split_whitespace(str) == split_from(str, <<>>, <<>>)

\* the args object of a call: with or without a string "command"
NoCommand == [has_command |-> FALSE, command |-> <<>>]
CommandArg(str) == [has_command |-> TRUE, command |-> str]

\* what is asked of run_command in the model: every allow-listed command,
\* and commands that are not on the list
OtherCommands ==
    { <<"rm", SP, "-rf", SP, "/">>,
      <<"cargo", SP, "test", SP, "--manifest-path=/tmp/x/Cargo.toml">>,
      <<"cargo", SP, "build", "x">>,
      <<"pytest", "x">>,
      <<"cargo">>,
      <<SP, "cargo", SP, "test">>,
      <<>> }

RunCommandArgs ==
    {NoCommand} \cup {CommandArg(c) : c \in ALLOWED_COMMANDS \cup OtherCommands}

\* ALLOWED_COMMANDS.iter().any(|allowed| command.starts_with(allowed))
allowed(command) == \E a \in ALLOWED_COMMANDS : starts_with(command, a)

\* run_command up to the spawn: the error it returns, or the argv it hands
\* to tokio::process::Command
run_command(args) ==
    IF ~args.has_command
    THEN [error |-> "InvalidArgs", argv |-> <<>>]
    ELSE IF ~allowed(args.command)
    THEN [error |-> "DisallowedCommand", argv |-> <<>>]
    ELSE IF split_whitespace(args.command) = <<>>
    THEN [error |-> "InvalidArgs", argv |-> <<>>]
    ELSE [error |-> "", argv |-> split_whitespace(args.command)]

\* spawned: the argv of every child process started so far; last: the args
\* and the outcome of the last call
RunnerReady ==
    [pc |-> "runner", spawned |-> {}, last_args |-> NoCommand,
     last_result |-> "none", calls |-> 0]

RunnerInit ==
    /\ LoopInit
    /\ http = HttpIdle
    /\ store = StoreIdle
    /\ repo = RunnerReady

\* one call of the tool: the checks, then Command::new(program).args(args)
\* ... .output(), which starts the child or fails to (map_err to Execution)
RunCommand ==
    /\ repo.pc = "runner"
    /\ repo.calls < MaxCommands
    /\ \E args \in RunCommandArgs :
         LET r == run_command(args)
             called == [repo EXCEPT !.calls = @ + 1, !.last_args = args]
         IN  IF r.error # ""
             THEN repo' = [called EXCEPT !.last_result = r.error]
             ELSE \/ repo' = [called EXCEPT !.last_result = "Ok",
                                            !.spawned = @ \cup {r.argv}]
                  \/ repo' = [called EXCEPT !.last_result = "Execution"]
    /\ UNCHANGED <<loopVars, http, store>>

RunnerNext == RunCommand

RunnerSpec == RunnerInit /\ [][RunnerNext]_vars

\* ------------------------------------------------------------------------
\* sanitize_path
\* ------------------------------------------------------------------------
\* A path is the sequence of its components.  An absolute path on disk is
\* written without the root: <<"repo", "src">> is /repo/src.  In a requested
\* path the component "/" at the front is Component::RootDir, ".." is
\* Component::ParentDir and "." is Component::CurDir.
RootDir == "/"
ParentDir == ".."
CurDir == "."

\* the disk: directories, files, and symbolic links with their targets
Directories == {<<>>, <<"repo">>, <<"repo", "src">>, <<"etc">>}
Files == {<<"repo", "README.md">>, <<"repo", "src", "main.rs">>, <<"etc", "passwd">>}
Symlinks ==
    { [at |-> <<"link">>, to |-> <<"repo">>],
      [at |-> <<"repo", "in">>, to |-> <<"repo", "src">>],
      [at |-> <<"repo", "out">>, to |-> <<"etc">>] }

is_symlink(path) == \E l \in Symlinks : l.at = path
read_link(path) == (CHOOSE l \in Symlinks : l.at = path).to

\* repository roots a project can name: the directory, a link to it, and a
\* directory that is not there
Roots == {<<"repo">>, <<"link">>, <<"gone">>}

\* paths a tool is asked for
RequestedPaths ==
    { <<"README.md">>, <<"src", "main.rs">>, <<CurDir, "src">>, <<"missing.txt">>,
      <<"in", "main.rs">>, <<"out", "passwd">>, <<"out">>,
      <<ParentDir, "etc", "passwd">>, <<ParentDir, "README.md">>,
      <<"src", ParentDir, "README.md">>, <<ParentDir, ParentDir, "src">>,
      <<RootDir, "etc", "passwd">>, <<RootDir, "repo", "README.md">>,
      <<>> }

InvalidPath == [ok |-> FALSE, path |-> <<>>]
ValidPath(path) == [ok |-> TRUE, path |-> path]

RECURSIVE resolve(_, _)
\* fs::canonicalize from the directory cur along the components rest: links
\* are followed, "." and ".." are resolved, every component has to exist
resolve(cur, rest) ==
    IF rest = <<>> THEN ValidPath(cur)
    ELSE IF Head(rest) = CurDir THEN resolve(cur, Tail(rest))
    ELSE IF Head(rest) = ParentDir
         THEN resolve(IF cur = <<>> THEN cur ELSE SubSeq(cur, 1, Len(cur) - 1),
                      Tail(rest))
    ELSE LET next == Append(cur, Head(rest))
         IN  IF is_symlink(next) THEN resolve(read_link(next), Tail(rest))
             ELSE IF next \in Directories THEN resolve(next, Tail(rest))
             ELSE IF next \in Files /\ Tail(rest) = <<>> THEN ValidPath(next)
             ELSE InvalidPath

\* Path::canonicalize of an absolute path
canonicalize(path) == resolve(<<>>, path)

\* components().filter(|c| !matches!(c, Component::ParentDir)).collect()
without_parent_dirs(requested) == SelectSeq(requested, LAMBDA c : c # ParentDir)

\* Path::join: an absolute right-hand side replaces the left-hand side
join(base, path) ==
    IF path # <<>> /\ Head(path) = RootDir THEN Tail(path) ELSE base \o path

\* Path::starts_with: component by component
path_starts_with(path, base) ==
    Len(base) <= Len(path) /\ SubSeq(path, 1, Len(base)) = base

\* the containment check left out
contained_unchecked(canonical, canonical_base) == TRUE

\* canonical.starts_with(&canonical_base)
contained(canonical, canonical_base) == path_starts_with(canonical, canonical_base)

\* sanitize_path: Ok(canonical), or Err(ToolError::PathTraversal)
sanitize_path(base, requested) ==
    LET cleaned == without_parent_dirs(requested)
        full == join(base, cleaned)
        canonical == canonicalize(full)
        canonical_base == canonicalize(base)
    IN  IF ~canonical.ok THEN InvalidPath
        ELSE IF ~canonical_base.ok THEN InvalidPath
        ELSE IF ~contained(canonical.path, canonical_base.path) THEN InvalidPath
        ELSE ValidPath(canonical.path)

\* answers: what sanitize_path was asked and what it returned, for every
\* call so far
GuardReady == [pc |-> "guard", answers |-> {}, calls |-> 0]

GuardInit ==
    /\ LoopInit
    /\ http = HttpIdle
    /\ store = StoreIdle
    /\ repo = GuardReady

\* a tool resolves the path it was given against the root of its project
SanitizePath ==
    /\ repo.pc = "guard"
    /\ repo.calls < MaxResolves
    /\ \E base \in Roots : \E requested \in RequestedPaths :
         repo' = [repo EXCEPT
                    !.calls = @ + 1,
                    !.answers = @ \cup {[base |-> base, requested |-> requested,
                                         result |-> sanitize_path(base, requested)]}]
    /\ UNCHANGED <<loopVars, http, store>>

GuardNext == SanitizePath

GuardSpec == GuardInit /\ [][GuardNext]_vars

\* ------------------------------------------------------------------------
\* The tables of 001_init.sql and the commands that write them
\* ------------------------------------------------------------------------
SYSTEM_PROJECT_ID == "system-project"
SYSTEM_TASK_ID == "system-task-llm-test"

ProjectIds == {"project1", SYSTEM_PROJECT_ID}
HostTaskIds == {"task1", SYSTEM_TASK_ID}
\* new_id() gives an id no row has had: ids are numbered as they are given
RowIds == 1..MaxRows

\* the tables; ids is the number of ids new_id() has given
EmptyTables ==
    [projects |-> {}, tasks |-> {}, runs |-> {}, messages |-> {},
     tool_calls |-> {}, artifacts |-> {}, ids |-> 0]

has_project(t, id) == id \in t.projects
has_task(t, id) == \E k \in t.tasks : k.id = id
has_run(t, id) == \E r \in t.runs : r.id = id

\* a delete that leaves the rows that reference the deleted row
cascade_off(t) == t

\* FOREIGN KEY ... ON DELETE CASCADE: the rows whose parent is gone go too
cascade(t) ==
    LET tasks == {k \in t.tasks : k.project_id \in t.projects}
        runs == {r \in t.runs : \E k \in tasks : k.id = r.task_id}
    IN  [t EXCEPT
           !.tasks = tasks,
           !.runs = runs,
           !.messages = {m \in @ : \E r \in runs : r.id = m.run_id},
           !.tool_calls = {c \in @ : \E r \in runs : r.id = c.run_id},
           !.artifacts = {a \in @ : \E k \in tasks : k.id = a.task_id}]

\* a command's Result and the tables it leaves
Done(ok, t) == [ok |-> ok, tables |-> t]

\* INSERT OR IGNORE of the system project, then of the system task
ensure_system_project_task(t) ==
    LET p == [t EXCEPT !.projects = @ \cup {SYSTEM_PROJECT_ID}]
    IN  IF has_task(p, SYSTEM_TASK_ID) THEN p
        ELSE [p EXCEPT !.tasks = @ \cup
                {[id |-> SYSTEM_TASK_ID, project_id |-> SYSTEM_PROJECT_ID]}]

\* create_run: INSERT INTO runs with ended_at NULL; the foreign key on
\* task_id refuses a task that does not exist
create_run(t, task_id, run_type) ==
    IF has_task(t, task_id)
    THEN Done(TRUE, [t EXCEPT
            !.runs = @ \cup {[id |-> t.ids + 1, task_id |-> task_id,
                              run_type |-> run_type, ended_at |-> FALSE]},
            !.ids = @ + 1])
    ELSE Done(FALSE, t)

\* add_message: INSERT INTO messages; the foreign key on run_id refuses a
\* run that does not exist, and nothing looks at the run's ended_at
add_message(t, run_id, role) ==
    IF has_run(t, run_id)
    THEN Done(TRUE, [t EXCEPT
            !.messages = @ \cup {[id |-> t.ids + 1, run_id |-> run_id,
                                  role |-> role]},
            !.ids = @ + 1])
    ELSE Done(FALSE, t)

\* execute_repo_tool: the tool runs and its ToolCall row is appended to the
\* run the caller names
append_tool_call(t, run_id) ==
    IF has_run(t, run_id)
    THEN Done(TRUE, [t EXCEPT
            !.tool_calls = @ \cup {[id |-> t.ids + 1, run_id |-> run_id]},
            !.ids = @ + 1])
    ELSE Done(FALSE, t)

\* close_run: ended_at is set
close_run(t, run_id) ==
    [t EXCEPT !.runs = {IF r.id = run_id THEN [r EXCEPT !.ended_at = TRUE]
                        ELSE r : r \in @}]

\* delete_project, delete_task: DELETE of the row, the foreign keys cascade
delete_project(t, id) == cascade([t EXCEPT !.projects = @ \ {id}])
delete_task(t, id) == cascade([t EXCEPT !.tasks = {k \in @ : k.id # id}])

NoChat == 0

\* chat is the run of the command that waits for the provider, if any
HostReady == [pc |-> "host", tables |-> EmptyTables, chat |-> NoChat]

HostInit ==
    /\ LoopInit
    /\ http = HttpIdle
    /\ repo = RepoIdle
    /\ store = HostReady

Host(t) ==
    /\ store' = [store EXCEPT !.tables = t]
    /\ UNCHANGED <<loopVars, http, repo>>

HasIds == store.pc = "host" /\ store.tables.ids < MaxRows

CreateProject ==
    /\ store.pc = "host"
    /\ ~has_project(store.tables, "project1")
    /\ Host([store.tables EXCEPT !.projects = @ \cup {"project1"}])

CreateTask ==
    /\ store.pc = "host"
    /\ ~has_task(store.tables, "task1")
    /\ \E project_id \in ProjectIds :
          /\ has_project(store.tables, project_id)
          /\ Host([store.tables EXCEPT !.tasks = @ \cup
                     {[id |-> "task1", project_id |-> project_id]}])

DeleteProject ==
    /\ store.pc = "host"
    /\ \E id \in store.tables.projects : Host(delete_project(store.tables, id))

DeleteTask ==
    /\ store.pc = "host"
    /\ \E k \in store.tables.tasks : Host(delete_task(store.tables, k.id))

CreateRun ==
    /\ HasIds
    /\ \E task_id \in HostTaskIds :
          Host(create_run(store.tables, task_id, "plan").tables)

CloseRun ==
    /\ store.pc = "host"
    /\ \E r \in store.tables.runs :
          /\ ~r.ended_at
          /\ Host(close_run(store.tables, r.id))

AddMessage ==
    /\ HasIds
    /\ \E run_id \in RowIds : \E role \in {"user", "assistant"} :
          Host(add_message(store.tables, run_id, role).tables)

ExecuteRepoTool ==
    /\ HasIds
    /\ \E run_id \in RowIds :
          Host(append_tool_call(store.tables, run_id).tables)

\* upsert_artifact from the host: the foreign key on task_id refuses a task
\* that does not exist
UpsertArtifact ==
    /\ store.pc = "host"
    /\ \E task_id \in HostTaskIds :
          /\ has_task(store.tables, task_id)
          /\ Host([store.tables EXCEPT !.artifacts = @ \cup
                     {[task_id |-> task_id, kind |-> "plan_md"]}])

\* llm_test_connection up to its request: the system rows, a run of type
\* test, the user message
llm_test_connection ==
    /\ HasIds
    /\ store.chat = NoChat
    /\ LET opened == create_run(ensure_system_project_task(store.tables),
                                SYSTEM_TASK_ID, "test")
           said == add_message(opened.tables, opened.tables.ids, "user")
       IN  /\ store.tables.ids + 1 < MaxRows
           /\ store' = [store EXCEPT !.tables = said.tables,
                                     !.chat = opened.tables.ids]
    /\ UNCHANGED <<loopVars, http, repo>>

\* llm_simple_chat up to its request: the user message goes to the run the
\* caller names; a failed write returns before the request
llm_simple_chat ==
    /\ HasIds
    /\ store.chat = NoChat
    /\ \E run_id \in RowIds :
          LET said == add_message(store.tables, run_id, "user")
          IN  store' = [store EXCEPT
                  !.tables = said.tables,
                  !.chat = IF said.ok THEN run_id ELSE NoChat]
    /\ UNCHANGED <<loopVars, http, repo>>

\* the provider answers: the assistant message is logged; or the request
\* fails and the command returns the error
ChatAnswered ==
    /\ store.pc = "host"
    /\ store.chat # NoChat
    /\ \E answered \in BOOLEAN :
          /\ answered => store.tables.ids < MaxRows
          /\ store' = [store EXCEPT
                !.tables = IF answered
                           THEN add_message(@, store.chat, "assistant").tables
                           ELSE @,
                !.chat = NoChat]
    /\ UNCHANGED <<loopVars, http, repo>>

HostNext ==
    \/ CreateProject \/ CreateTask \/ DeleteProject \/ DeleteTask
    \/ CreateRun \/ CloseRun \/ AddMessage \/ ExecuteRepoTool
    \/ UpsertArtifact
    \/ llm_test_connection \/ llm_simple_chat \/ ChatAnswered

HostSpec == HostInit /\ [][HostNext]_vars

\* ------------------------------------------------------------------------
\* TaskDetail: the Generate Plan and Verify buttons of one task
\* ------------------------------------------------------------------------
Workflows == {"generate_plan", "verify_task"}

\* useState(false) of isGeneratingPlan and isVerifying, useState(null) of
\* error and verifyError: the state a mounted TaskDetail starts with
FreshView ==
    [isGeneratingPlan |-> FALSE, isVerifying |-> FALSE,
     error |-> FALSE, verifyError |-> FALSE]

\* view is the state of the mounted component, mounts counts the times the
\* route has been entered, running holds the commands the host has not
\* answered yet, each with the mount whose handler waits for it
TaskViewReady ==
    [pc |-> "task_view", mounted |-> TRUE, mounts |-> 1, view |-> FreshView,
     running |-> {}, started |-> 0]

TaskViewInit ==
    /\ LoopInit
    /\ http = HttpIdle
    /\ repo = RepoIdle
    /\ store = TaskViewReady

\* a Button takes no click while it is loading or disabled
clickable(loading, disabled) == ~loading /\ ~disabled

Started(workflow) ==
    [id |-> store.started + 1, workflow |-> workflow, mount |-> store.mounts]

\* handleGeneratePlan up to its await
handleGeneratePlan ==
    /\ store.pc = "task_view"
    /\ store.mounted
    /\ store.started < MaxWorkflows
    /\ clickable(store.view.isGeneratingPlan, store.view.isVerifying)
    /\ store' = [store EXCEPT
          !.view.isGeneratingPlan = TRUE,
          !.view.error = FALSE,
          !.running = @ \cup {Started("generate_plan")},
          !.started = @ + 1]
    /\ UNCHANGED <<loopVars, http, repo>>

\* handleVerify up to its await
handleVerify ==
    /\ store.pc = "task_view"
    /\ store.mounted
    /\ store.started < MaxWorkflows
    /\ clickable(store.view.isVerifying, store.view.isGeneratingPlan)
    /\ store' = [store EXCEPT
          !.view.isVerifying = TRUE,
          !.view.verifyError = FALSE,
          !.running = @ \cup {Started("verify_task")},
          !.started = @ + 1]
    /\ UNCHANGED <<loopVars, http, repo>>

\* the rest of a handler: the command resolves or rejects, then finally.
\* The setters are those of the mount that made the call; when that
\* component is gone they change nothing one can see
settled(view, workflow, failed) ==
    IF workflow = "generate_plan"
    THEN [view EXCEPT !.isGeneratingPlan = FALSE, !.error = failed]
    ELSE [view EXCEPT !.isVerifying = FALSE, !.verifyError = failed]

WorkflowSettles ==
    /\ store.pc = "task_view"
    /\ \E w \in store.running : \E failed \in BOOLEAN :
          store' = [store EXCEPT
              !.running = @ \ {w},
              !.view = IF store.mounted /\ w.mount = store.mounts
                       THEN settled(@, w.workflow, failed)
                       ELSE @]
    /\ UNCHANGED <<loopVars, http, repo>>

\* the route changes: TaskDetail is unmounted and its state is dropped
NavigateAway ==
    /\ store.pc = "task_view"
    /\ store.mounted
    /\ store.mounts < MaxMounts
    /\ store' = [store EXCEPT !.mounted = FALSE, !.view = FreshView]
    /\ UNCHANGED <<loopVars, http, repo>>

\* the route of the task is entered again: a new TaskDetail
NavigateBack ==
    /\ store.pc = "task_view"
    /\ ~store.mounted
    /\ store' = [store EXCEPT !.mounted = TRUE, !.mounts = @ + 1,
                              !.view = FreshView]
    /\ UNCHANGED <<loopVars, http, repo>>

TaskViewNext ==
    \/ handleGeneratePlan \/ handleVerify \/ WorkflowSettles
    \/ NavigateAway \/ NavigateBack

TaskViewSpec == TaskViewInit /\ [][TaskViewNext]_vars

\* ------------------------------------------------------------------------
\* Settings page: loadSettings and handleSave
\* ------------------------------------------------------------------------
\* A value of a text field is the sequence of its pieces, "" is <<>>
FormKeys == {"base_url", "model"}

DEFAULT_SETTINGS ==
    [base_url |-> <<"https://", "api.openai.com/v1">>, model |-> <<"gpt-4o">>]

\* the rows the migration inserts
SeededSettings ==
    [base_url |-> <<"https://", "openrouter.ai/api/v1">>,
     model |-> <<"z-ai/glm-4.7-flash">>]

\* what a user types into a field: nothing, a default, or something else
FieldValues ==
    [base_url |-> {<<>>, DEFAULT_SETTINGS.base_url,
                   <<"http://", "localhost:11434/v1">>,
                   <<"ftp://", "example.com">>},
     model |-> {<<>>, DEFAULT_SETTINGS.model, <<"gpt-4-test">>}]

\* base_url must start with http:// or https://
valid_base_url(value) ==
    starts_with(value, <<"http://">>) \/ starts_with(value, <<"https://">>)

\* map.key || DEFAULT_SETTINGS.key: "" and undefined are falsy
or_default(value, default) == IF value = <<>> THEN default ELSE value

\* loadSettings after getSettings returned the table
loaded_form(table) ==
    [k \in FormKeys |-> or_default(table[k], DEFAULT_SETTINGS[k])]

\* the pairs handleSave builds from the form
form_pairs(form) ==
    << [key |-> "base_url", value |-> form.base_url],
       [key |-> "model", value |-> form.model] >>

NoForm == [k \in FormKeys |-> <<"none">>]

\* table is what set_settings has committed, form the state of the mounted
\* component, saved the form of the last save that succeeded, loaded tells
\* that the form is as loadSettings left it
SettingsPageReady ==
    [pc |-> "settings_page", table |-> SeededSettings,
     form |-> loaded_form(SeededSettings), saved |-> NoForm,
     loaded |-> TRUE, saveStatus |-> "idle"]

SettingsPageInit ==
    /\ LoopInit
    /\ http = HttpIdle
    /\ repo = RepoIdle
    /\ store = SettingsPageReady

\* onChange of a TextInput
EditField ==
    /\ store.pc = "settings_page"
    /\ \E k \in FormKeys : \E value \in FieldValues[k] :
          /\ store.form[k] # value
          /\ store' = [store EXCEPT !.form[k] = value, !.loaded = FALSE]
    /\ UNCHANGED <<loopVars, http, repo>>

\* handleSave: the pairs go to set_settings as they are; the call commits
\* all of them or fails and leaves the table
handleSave ==
    /\ store.pc = "settings_page"
    /\ \/ store' = [store EXCEPT
             !.table = upsert_all(@, form_pairs(store.form)),
             !.saved = store.form,
             !.loaded = FALSE,
             !.saveStatus = "success"]
       \/ store' = [store EXCEPT !.saveStatus = "error", !.loaded = FALSE]
    /\ UNCHANGED <<loopVars, http, repo>>

\* the page is opened again, after a restart or a route change: useState of
\* DEFAULT_SETTINGS, then loadSettings; when getSettings fails the defaults
\* stay
loadSettings ==
    /\ store.pc = "settings_page"
    /\ ~store.loaded
    /\ \/ store' = [store EXCEPT !.form = loaded_form(store.table),
                                 !.loaded = TRUE, !.saveStatus = "idle"]
       \/ store' = [store EXCEPT !.form = DEFAULT_SETTINGS,
                                 !.saveStatus = "idle"]
    /\ UNCHANGED <<loopVars, http, repo>>

SettingsPageNext == EditField \/ handleSave \/ loadSettings

SettingsPageSpec == SettingsPageInit /\ [][SettingsPageNext]_vars

\* ------------------------------------------------------------------------
\* generate_plan in a process that may stop at any point
\* ------------------------------------------------------------------------
\* The process ends while generate_plan is under way.  Each add_message and
\* each ToolCall row is one statement on a connection of its own, committed
\* as it is executed: what has been written stays, nothing else is written.
Crash ==
    /\ pc \in {"loop_head", "await_llm", "log_assistant", "exec_tool",
               "log_tool", "save_plan"}
    /\ pc' = "crashed"
    /\ UNCHANGED <<iteration, messages, response, pending, tool_calls_count,
                   truncated, final_plan, result, run, db_messages,
                   db_tool_calls, artifact, artifact0, requests, responses,
                   llm_error, before, sent, variations, http, store, repo>>

CrashNext == Next \/ Crash

CrashSpec == Init /\ [][CrashNext]_vars

\* ------------------------------------------------------------------------
\* The settings a run reads and the configuration its requests use
\* ------------------------------------------------------------------------
ConfigKeys == {"provider_name", "model", "temperature"}

\* values of the settings table; "warm" is a temperature that does not
\* parse as a number
ConfigValues ==
    [provider_name |-> {"openai", "router"},
     model |-> {"gpt-4o", "gpt-4-test"},
     temperature |-> {"0.2", "0.8", "warm"}]

\* str::parse::<f64>().ok(): Some for a number
parse_f64(s) == IF s \in {"0.2", "0.8"} THEN Some(s) ELSE None

\* build_llm_config: the strings as stored, the temperature parsed or 0.2
build_llm_config(settings) ==
    [provider_name |-> settings.provider_name,
     model |-> settings.model,
     temperature |-> IF parse_f64(settings.temperature).some
                     THEN parse_f64(settings.temperature).val ELSE "0.2"]

\* a request that reads the settings again instead of the client's config
request_config_rereads(client, settings) == build_llm_config(settings)

\* chat_with_tools and chat build the request from self.config
request_config(client, settings) == client.config

NoConfig == [provider_name |-> "", model |-> "", temperature |-> ""]
NoRun == [created |-> FALSE, run_type |-> "", provider |-> "", model |-> ""]

\* settings is the committed table, config what the command read at its
\* start, run the row create_run inserted, client the LlmClient, requests the
\* configuration each request was built from together with what the table
\* would have given at that moment
RunConfigReady ==
    [pc |-> "cfg_idle", settings |-> [provider_name |-> "openai",
                                      model |-> "gpt-4o",
                                      temperature |-> "0.2"],
     run_type |-> "", config |-> NoConfig, run |-> NoRun,
     client |-> [config |-> NoConfig], requests |-> <<>>, updates |-> 0]

RunConfigInit ==
    /\ LoopInit
    /\ http = HttpIdle
    /\ repo = RepoIdle
    /\ store = RunConfigReady

InRunConfig ==
    store.pc \in {"cfg_idle", "cfg_read", "cfg_run", "cfg_client", "cfg_done"}

\* set_settings from the Settings page while anything else goes on
SettingsUpdated ==
    /\ InRunConfig
    /\ store.updates < MaxSettingsUpdates
    /\ \E k \in ConfigKeys : \E v \in ConfigValues[k] :
          /\ store.settings[k] # v
          /\ store' = [store EXCEPT !.settings[k] = v, !.updates = @ + 1]
    /\ UNCHANGED <<loopVars, http, repo>>

\* generate_plan step 2, llm_test_connection's first line: the settings are
\* read and the configuration is built
ReadConfig ==
    /\ store.pc = "cfg_idle"
    /\ \E run_type \in {"plan", "test"} :
          store' = [store EXCEPT !.pc = "cfg_read", !.run_type = run_type,
                                 !.config = build_llm_config(store.settings)]
    /\ UNCHANGED <<loopVars, http, repo>>

\* create_run: get_llm_config reads the settings again, and the row gets
\* the provider_name and model of that reading
RunCreated ==
    /\ store.pc = "cfg_read"
    /\ LET config == build_llm_config(store.settings)
       IN  store' = [store EXCEPT
              !.pc = "cfg_run",
              !.run = [created |-> TRUE, run_type |-> store.run_type,
                       provider |-> config.provider_name,
                       model |-> config.model]]
    /\ UNCHANGED <<loopVars, http, repo>>

\* LlmClient::new(config, api_key)
ClientBuilt ==
    /\ store.pc = "cfg_run"
    /\ store' = [store EXCEPT !.pc = "cfg_client",
                              !.client = [config |-> store.config]]
    /\ UNCHANGED <<loopVars, http, repo>>

\* one provider request of the run; a test run makes one
RequestSent ==
    /\ store.pc = "cfg_client"
    /\ Len(store.requests) < MaxRequests
    /\ store.run_type = "test" => store.requests = <<>>
    /\ store' = [store EXCEPT !.requests = Append(@,
                    [used |-> request_config(store.client, store.settings),
                     stored |-> build_llm_config(store.settings)])]
    /\ UNCHANGED <<loopVars, http, repo>>

\* the command returns
RunReturns ==
    /\ store.pc = "cfg_client"
    /\ store.requests # <<>>
    /\ store' = [store EXCEPT !.pc = "cfg_done"]
    /\ UNCHANGED <<loopVars, http, repo>>

RunConfigNext ==
    \/ SettingsUpdated \/ ReadConfig \/ RunCreated \/ ClientBuilt
    \/ RequestSent \/ RunReturns

RunConfigSpec == RunConfigInit /\ [][RunConfigNext]_vars

\* ------------------------------------------------------------------------
\* verify_task: the checks run before the first provider request
\* ------------------------------------------------------------------------
CheckNames == <<"tests", "lint", "build">>

\* useState of verifyOptions
DefaultVerifyOptions ==
    [run_tests |-> TRUE, run_lint |-> FALSE, run_build |-> FALSE,
     staged |-> FALSE]

OptionKeys == {"run_tests", "run_lint", "run_build", "staged"}

\* the option that requests a check
option_of(check) ==
    CASE check = "tests" -> "run_tests"
      [] check = "lint" -> "run_lint"
      [] check = "build" -> "run_build"

\* the allow-listed command of a check in a Rust and in a JS repository
check_command(kind, check) ==
    IF kind = "cargo"
    THEN CASE check = "tests" -> <<"cargo", SP, "test">>
           [] check = "lint" -> <<"cargo", SP, "clippy">>
           [] check = "build" -> <<"cargo", SP, "build">>
    ELSE CASE check = "tests" -> <<"npm", SP, "test">>
           [] check = "lint" -> <<"npm", SP, "run", SP, "lint">>
           [] check = "build" -> <<"npm", SP, "run", SP, "build">>

\* the checks the options request, in the order they are run
requested_checks(options) ==
    SelectSeq(CheckNames, LAMBDA c : options[option_of(c)])

\* a ran_checks that reports every check
ran_checks_all(options) == [tests |-> TRUE, lint |-> TRUE, build |-> TRUE]

\* ran_checks of the result: the checks that were requested
ran_checks(options) ==
    [tests |-> options.run_tests, lint |-> options.run_lint,
     build |-> options.run_build]

NoChecks == [tests |-> FALSE, lint |-> FALSE, build |-> FALSE]

\* options is the state of the check boxes, todo the checks still to run,
\* outputs what run_command gave for each check run, seeded the checks whose
\* output is in the initial user message, requests the provider requests
\* issued, done_at_request the checks completed when the first was issued
VerifyReady ==
    [pc |-> "verify_idle", kind |-> "cargo", options |-> DefaultVerifyOptions,
     todo |-> <<>>, outputs |-> <<>>, seeded |-> <<>>, requests |-> 0,
     done_at_request |-> <<>>, ran_checks |-> NoChecks]

VerifyInit ==
    /\ LoopInit
    /\ http = HttpIdle
    /\ repo = RepoIdle
    /\ \E kind \in {"cargo", "npm"} : store = [VerifyReady EXCEPT !.kind = kind]

\* onChange of a Checkbox
ToggleOption ==
    /\ store.pc = "verify_idle"
    /\ \E k \in OptionKeys : store' = [store EXCEPT !.options[k] = ~@]
    /\ UNCHANGED <<loopVars, http, repo>>

\* handleVerify: verifyTask(projectId, taskId, verifyOptions)
VerifyStarted ==
    /\ store.pc = "verify_idle"
    /\ store' = [store EXCEPT !.pc = "verify_checks",
                              !.todo = requested_checks(store.options)]
    /\ UNCHANGED <<loopVars, http, repo>>

\* the next requested check goes through run_command; the child runs to its
\* end, or cannot be started
CheckRun ==
    /\ store.pc = "verify_checks"
    /\ store.todo # <<>>
    /\ LET check == Head(store.todo)
           r == run_command(CommandArg(check_command(store.kind, check)))
       IN  \E started \in BOOLEAN :
              store' = [store EXCEPT
                 !.todo = Tail(@),
                 !.outputs = Append(@,
                    [check |-> check, argv |-> r.argv,
                     result |-> IF r.error # "" THEN r.error
                                ELSE IF started THEN "Ok" ELSE "Execution"])]
    /\ UNCHANGED <<loopVars, http, repo>>

\* the outputs are put into the initial user message and the first request
\* is issued
VerifyFirstRequest ==
    /\ store.pc = "verify_checks"
    /\ store.todo = <<>>
    /\ store' = [store EXCEPT
          !.pc = "verify_llm",
          !.seeded = [i \in 1..Len(store.outputs) |-> store.outputs[i].check],
          !.done_at_request =
              [i \in 1..Len(store.outputs) |-> store.outputs[i].check],
          !.requests = 1]
    /\ UNCHANGED <<loopVars, http, repo>>

\* the loop ends and the command returns its result
VerifyReturns ==
    /\ store.pc = "verify_llm"
    /\ store' = [store EXCEPT !.pc = "verify_done",
                              !.ran_checks = ran_checks(store.options)]
    /\ UNCHANGED <<loopVars, http, repo>>

VerifyNext ==
    \/ ToggleOption \/ VerifyStarted \/ CheckRun \/ VerifyFirstRequest
    \/ VerifyReturns

VerifySpec == VerifyInit /\ [][VerifyNext]_vars

\* ------------------------------------------------------------------------
\* The repository a tool call of a run operates on
\* ------------------------------------------------------------------------
ProjectsWithRepo == {"projectA", "projectB"}

\* projects.repo_path
repo_path_of(project_id) ==
    IF project_id = "projectA" THEN <<"repos", "a">>
    ELSE IF project_id = "projectB" THEN <<"repos", "b">>
    ELSE <<>>

\* what the model puts into the arguments: an object without project_id, an
\* object that names a project (the run's, another one, one that does not
\* exist), or JSON that is not an object
Absent_project_id == "absent"
NotAnObject == "not an object"
SuppliedArguments ==
    {Absent_project_id, NotAnObject, "projectA", "projectB", "projectZ"}

\* obj.entry("project_id").or_insert_with(|| json!(project_id)): the value
\* the model gave stays, a missing one becomes the run's project
args_with_project(arguments, project_id) ==
    IF arguments = Absent_project_id THEN project_id ELSE arguments

\* a root taken from the project_id inside the arguments
resolve_repo_path_from_args(project_id, arguments) == repo_path_of(arguments)

\* execute_repo_tool: the root is that of the project_id parameter of the
\* command; the arguments go to the tool as they are
resolve_repo_path(project_id, arguments) == repo_path_of(project_id)

\* run_project is the project generate_plan was called for; invocations
\* holds, for each tool call executed, the arguments handed on and the root
\* the tool was given
ToolRootReady == [pc |-> "tools", run_project |-> "projectA", invocations |-> <<>>]

ToolRootInit ==
    /\ LoopInit
    /\ http = HttpIdle
    /\ repo = RepoIdle
    /\ \E p \in ProjectsWithRepo : store = [ToolRootReady EXCEPT !.run_project = p]

\* execute_single_tool for one call of the model, down to dispatch_repo_tool
ToolInvoked ==
    /\ store.pc = "tools"
    /\ Len(store.invocations) < MaxToolRuns
    /\ \E name \in {"list_files", "read_file"} :
       \E arguments \in SuppliedArguments :
          LET args == args_with_project(arguments, store.run_project)
          IN  store' = [store EXCEPT !.invocations = Append(@,
                 [name |-> name, supplied |-> arguments, args |-> args,
                  repo_path |-> resolve_repo_path(store.run_project, args)])]
    /\ UNCHANGED <<loopVars, http, repo>>

ToolRootNext == ToolInvoked

ToolRootSpec == ToolRootInit /\ [][ToolRootNext]_vars

\* ------------------------------------------------------------------------
\* Properties
\* ------------------------------------------------------------------------
ToolRows == SelectSeq(db_messages, LAMBDA m : m.role = "tool")
AssistantRows == SelectSeq(db_messages, LAMBDA m : m.role = "assistant")
Returned == pc \in {"done", "error"}

C2_ToolMessagesFollowTheirCalls ==
    pc = "done" =>
        \A i \in 1..Len(db_messages) :
            (db_messages[i].role = "assistant" /\ db_messages[i].tool_calls.some) =>
                \A k \in 1..Len(db_messages[i].tool_calls.val) :
                    /\ i + k <= Len(db_messages)
                    /\ db_messages[i + k].role = "tool"
                    /\ db_messages[i + k].tool_call_id
                         = db_messages[i].tool_calls.val[k].id

\* C3: between turns and once the workflow has returned, the run has as
\* many persisted tool messages as ToolCall rows.
C3_ToolMessagesMatchToolCallRows ==
    pc \in {"loop_head", "save_plan", "done", "error"} =>
        Len(ToolRows) = Len(db_tool_calls)

\* C4: generate_plan does not return to its caller, with a result or with an
\* error, while the run it opened has no ended_at.
C4_RunClosedOnReturn == (Returned /\ run.created) => run.ended_at

\* a call the tool layer refuses: unknown name, arguments that are not
\* JSON, arguments the tool rejects
ToolLocalFailure(call) ==
    \/ call.name \notin RegisteredTools
    \/ call.arguments \in {"rejected", "notjson"}

\* C5: a tool call that fails tool-locally yields a tool message with an
\* error payload for its tool_call_id, and the loop goes on; the workflow
\* does not return an error because of it.
C5_ToolLocalFailureContinues ==
    [][ (pc = "exec_tool" /\ pending # <<>> /\ ToolLocalFailure(Head(pending)))
        => /\ pc' = "log_tool"
           /\ messages' = Append(messages,
                 ChatMessage("tool",
                     Some(Str("tool_error", Head(pending).id, ErrorEnvelopeLen)),
                     Head(pending).id, NoCalls)) ]_vars

\* C6: when the provider returned tool calls on each of the first 12 turns,
\* there is no 13th request, the artifact is the final content with the
\* truncation note and the result says truncated; with one call per turn, 12
\* assistant messages and 12 ToolCall rows are persisted.
C6_IterationCap ==
    (pc = "done" /\ iteration = 12) =>
        /\ requests = 12
        /\ result.truncated
        /\ result.plan_md.note
        /\ artifact = Some(result.plan_md)
        /\ (tool_calls_count = 12 =>
               /\ Len(AssistantRows) = 12
               /\ Len(db_tool_calls) = 12)

\* C7: when every provider request, tool execution and database write
\* returns, the run ends, with a result or with an error.
C7_RunTerminates == <>Returned

C7_Witness == pc = "done" /\ iteration = 12 /\ Len(db_tool_calls) = 12

\* C8: a request issued while the context exceeds 100,000 characters is sent
\* the system message followed by the last six of the other messages, and
\* the result of the run says truncated.
C8_PruneKeepsSystemAndLastSix ==
    (requests > 0 /\ context_size(before) > 100000) =>
        /\ sent = <<before[1]>> \o LastN(Tail(before), 6)
        /\ truncated
        /\ (pc = "done" => result.truncated)

\* C9: when the first request is rejected with HTTP 401, generate_plan
\* returns an error naming the invalid credential, the artifact of the task
\* is what it was before the call, and the persisted messages of the run are
\* the system and the user seed message.
C9_UnauthorizedOnFirstRequest ==
    (pc = "error" /\ requests = 1 /\ llm_error = "API error 401: Invalid API key") =>
        /\ result.kind = "err"
        /\ \/ result.code = "InvalidCredentials"
           \/ result.message = "API error 401: Invalid API key"
        /\ artifact = artifact0
        /\ [i \in 1..Len(db_messages) |-> db_messages[i].role] = <<"system", "user">>

\* C10: the client sends the request again only after a network error, an
\* HTTP 429 or a status >= 500; after a 400, 401, 403, 404 or 422 there is no
\* further attempt, and when that was the first answer the call returns
\* after exactly one request.
C10_RetryOnlyTransientFailures ==
    /\ (http.pc = "sleep" =>
           (http.last = NetworkError \/ http.last = 429 \/ http.last >= 500))
    /\ (http.last \in {400, 401, 403, 404, 422} => http.pc = "returned")

\* the envelope with which a failed chat call reaches the caller of generate_plan
Surfaced == llm_error_envelope(http.result)
ChatFailed == http.pc = "returned" /\ http.result \notin {"Ok", "none", "MissingApiKey"}

\* C11: the envelope of a failed chat call names the class of the failure,
\* in its code or in its message: invalid credentials after a 401, rate
\* limited after a 429, timeout when the call gave up because its time
\* budget ran out on another failure.
C11_ErrorNamesFailureClass ==
    ChatFailed =>
        /\ (http.last = 401 =>
               \/ Surfaced.code = "InvalidCredentials"
               \/ Surfaced.message = "API error 401: Invalid API key")
        /\ (http.last = 429 =>
               \/ Surfaced.code = "RateLimited"
               \/ Surfaced.message = "Rate limited")
        /\ ((http.elapsed > MaxElapsedMs /\ http.last \notin {401, 429}) =>
               \/ Surfaced.code = "Timeout"
               \/ Surfaced.message = "Timeout")

\* C12: whatever extra_headers object is stored, one with an Authorization
\* key in any letter case included, every request the client sends carries
\* Authorization: Bearer <the configured key>.
C12_AuthorizationNotOverridden ==
    http.attempts > 0 => http.headers["authorization"] = Bearer(ApiKey)

\* the calls of the current turn and how many of them have been handled
TurnCalls == response.tool_calls.val
Handled == Len(TurnCalls) - Len(pending)
HasToolCallRow(id) == \E r \in 1..Len(db_tool_calls) : db_tool_calls[r].call = id
HasToolMessage(id) ==
    \E r \in 1..Len(db_messages) :
        db_messages[r].role = "tool" /\ db_messages[r].tool_call_id = id

\* C13: when the execution of a call of a turn is about to start, the
\* ToolCall row and the tool message of every earlier call of the turn have
\* been appended to the run log, and nothing has been written yet for the
\* call itself or a later one: the calls run and persist one at a time in
\* the order returned.
C13_ToolsRunAndPersistInOrder ==
    pc = "exec_tool" =>
        /\ \A j \in 1..Handled :
              HasToolCallRow(TurnCalls[j].id) /\ HasToolMessage(TurnCalls[j].id)
        /\ \A j \in (Handled + 1)..Len(TurnCalls) :
              ~HasToolCallRow(TurnCalls[j].id) /\ ~HasToolMessage(TurnCalls[j].id)

C15_SetSettingsAtomic ==
    store.pc \in {"settings", "in_tx"} =>
        LET none == store.before
            every == upsert_all(store.before, store.all)
        IN  /\ store.committed \in {none, every}
            /\ store.seen \in {none, every}
            /\ (store.outcome = "ok" => store.committed = every)
            /\ (store.outcome = "err" => store.committed = none)

C15_Witness ==
    /\ store.pc = "settings"
    /\ store.outcome = "err"
    /\ store.applied = 1
    /\ Len(store.all) = 2
    /\ upsert_all(store.before, <<store.all[1]>>) # store.before
    /\ upsert_all(store.before, <<store.all[1]>>) # upsert_all(store.before, store.all)

\* the argv of the allow-listed commands
AllowedArgvs == {split_whitespace(a) : a \in ALLOWED_COMMANDS}

\* C16: every child process run_command has started has the argv of one of
\* the allow-listed commands, and a call asking for any other command
\* returned DisallowedCommand.
C16_OnlyAllowListedCommandsSpawn ==
    repo.pc = "runner" =>
        /\ repo.spawned \subseteq AllowedArgvs
        /\ ((repo.last_args.has_command
              /\ repo.last_args.command \notin ALLOWED_COMMANDS) =>
                repo.last_result = "DisallowedCommand")

\* C17: whenever sanitize_path returns a path, the canonical form of that
\* path lies under the canonical form of the repository root it was given.
C17_ReturnedPathsAreContained ==
    repo.pc = "guard" =>
        \A a \in repo.answers :
            a.result.ok =>
                /\ canonicalize(a.result.path).ok
                /\ canonicalize(a.base).ok
                /\ path_starts_with(canonicalize(a.result.path).path,
                                    canonicalize(a.base).path)

C17_Witness ==
    /\ repo.pc = "guard"
    /\ \E a \in repo.answers :
          a.base = <<"link">> /\ a.requested = <<"in", "main.rs">> /\ a.result.ok
    /\ \E a \in repo.answers :
          a.base = <<"repo">> /\ a.requested = <<"out", "passwd">> /\ ~a.result.ok

\* C18: a requested path with a ".." component is refused: sanitize_path
\* returns the error and never a file of the repository.
C18_ParentDirIsRejected ==
    repo.pc = "guard" =>
        \A a \in repo.answers :
            (\E i \in 1..Len(a.requested) : a.requested[i] = ParentDir) =>
                ~a.result.ok

\* C19: a tool that runs while the repository root is unavailable ends the
\* run: the workflow returns an error and no further request is issued.
C19_RepoUnavailableAborts ==
    [][ (/\ pc = "exec_tool" /\ pending # <<>>
         /\ ~repo.available
         /\ parses_as_json(Head(pending).arguments)
         /\ Head(pending).name \in RegisteredTools)
        => (pc' = "error" /\ result'.kind = "err") ]_vars

\* a step that tries to write a message of the run and writes none
LogWriteFails ==
    /\ \/ pc = "log_tool"
       \/ pc = "log_assistant" /\ response.content.some
    /\ db_messages' = db_messages

\* C20: when the write of an assistant message or of a tool message fails,
\* the workflow issues no further request: it closes the run and returns an
\* error.
C20_LogWriteFailureAborts ==
    [][ LogWriteFails =>
          (pc' = "error" /\ result'.kind = "err" /\ run'.ended_at) ]_vars

\* C21: once a run's ended_at is set, no command of the host adds a message
\* or a ToolCall row to the run and none changes a field of the run; the run
\* stays as it is for as long as it exists.
RowsOfRun(t, run_id) ==
    <<{m \in t.messages : m.run_id = run_id},
      {c \in t.tool_calls : c.run_id = run_id}>>

C21_ClosedRunIsImmutable ==
    [][\A r \in store.tables.runs :
          (store.pc = "host" /\ r.ended_at /\ has_run(store'.tables, r.id))
             => /\ r \in store'.tables.runs
                /\ RowsOfRun(store'.tables, r.id)
                     = RowsOfRun(store.tables, r.id)]_vars

StoredPlan(task_id) == planArtifact(list_artifacts(store.rows, task_id)).content

Observable(rows) ==
    [i \in 1..Len(rows) |-> [rows[i] EXCEPT !.created_at = 0]]

C25_OneWorkflowInFlight ==
    store.pc = "task_view" => Cardinality(store.running) <= 1

\* C26: when settings have been saved and the page has loaded them again,
\* every field shows the value that was saved for it, not a default.
C26_LoadShowsSavedValues ==
    (store.pc = "settings_page" /\ store.loaded /\ store.saved # NoForm)
        => store.form = store.saved

\* C27: a save whose base_url does not start with http:// or https:// is
\* rejected: it leaves the stored settings as they were.
C27_InvalidSaveRejected ==
    [][(handleSave /\ ~valid_base_url(store.form.base_url))
          => store'.table = store.table]_vars

\* the (role, content) pairs of chat messages and of rows of table messages
SentPairs(ms) ==
    [i \in 1..Len(ms) |-> <<ms[i].role, unwrap_or_default(ms[i].content)>>]
StoredPairs(rows) == [i \in 1..Len(rows) |-> <<rows[i].role, rows[i].content>>]

\* C28: while a provider request of a run that has not pruned is under way,
\* the messages it sent are, role by role and content by content and in the
\* same order, the messages persisted for the run so far.
C28_SentEqualsPersisted ==
    (pc = "await_llm" /\ ~truncated)
        => SentPairs(sent) = StoredPairs(db_messages)

\* C29: once the first provider request has been issued, the run log starts
\* with the seed system message and the seed user message.
C29_SeedMessagesPersisted ==
    requests >= 1 =>
        /\ Len(db_messages) >= 2
        /\ db_messages[1].role = "system"
        /\ db_messages[2].role = "user"

\* C30: when the handling of a provider response has got past the logging of
\* the assistant message, the run has as many persisted assistant messages
\* as it has received provider responses.
C30_OneAssistantRowPerResponse ==
    pc \in {"loop_head", "exec_tool", "log_tool", "save_plan", "done"}
        => Len(AssistantRows) = responses

\* C31: after a crash during a step of the loop (an assistant turn and the
\* tool calls it spawns), the rows of the step that are visible are all of
\* them, the assistant message and the ToolCall row and tool message of
\* every call, or none of them.
HasAssistantRow ==
    \E r \in 1..Len(db_messages) :
        /\ db_messages[r].role = "assistant"
        /\ db_messages[r].tool_calls = response.tool_calls

C31_StepRowsAllOrNone ==
    (pc = "crashed" /\ response.tool_calls.some /\ TurnCalls # <<>>) =>
        \/ /\ HasAssistantRow
           /\ \A j \in 1..Len(TurnCalls) :
                 HasToolCallRow(TurnCalls[j].id) /\ HasToolMessage(TurnCalls[j].id)
        \/ /\ ~HasAssistantRow
           /\ \A j \in 1..Len(TurnCalls) :
                 ~HasToolCallRow(TurnCalls[j].id) /\ ~HasToolMessage(TurnCalls[j].id)

C38_RunRowMatchesClientConfig ==
    (InRunConfig /\ store.run.created /\ store.pc \in {"cfg_client", "cfg_done"})
        => /\ store.run.provider = store.client.config.provider_name
           /\ store.run.model = store.client.config.model

\* C33: in verify_task every check the options request has been run through
\* run_command and has ended before the first provider request is issued,
\* its output is in the initial user message, and ran_checks of the result
\* is true for exactly the requested checks.
InVerify ==
    store.pc \in {"verify_idle", "verify_checks", "verify_llm", "verify_done"}

C34_TruncatedOnlyByCapOrPruning ==
    [][(pc = "save_plan" /\ pc' = "done") =>
          /\ result'.truncated =>
                (truncated \/ iteration = MAX_TOOL_ITERATIONS)
          /\ (iteration < MAX_TOOL_ITERATIONS /\ ~truncated) =>
                /\ ~result'.truncated
                /\ ~result'.plan_md.note
                /\ artifact' = Some(final_plan)]_vars

\* a request is under way whose context was over the limit, so that
\* truncate_messages was applied to it
PrunedRequest == pc = "await_llm" /\ context_size(before) > MAX_CONTEXT_CHARS

SystemPositions(ms) == {i \in 1..Len(ms) : ms[i].role = "system"}

\* C35: the list sent after pruning holds the system message once, at the
\* first position, and at most seven messages, and it is no longer than the
\* list was before pruning.
C35_PrunedListShape ==
    PrunedRequest =>
        /\ SystemPositions(sent) = {1}
        /\ Len(sent) <= 7
        /\ Len(sent) <= Len(before)

\* C36: in the list sent after pruning, every tool message comes after the
\* assistant message whose tool_calls holds its tool_call_id.
CallIds(m) ==
    IF m.tool_calls.some
    THEN {m.tool_calls.val[k].id : k \in 1..Len(m.tool_calls.val)}
    ELSE {}

C36_ToolResponseFollowsItsCall ==
    PrunedRequest =>
        \A i \in 1..Len(sent) :
            sent[i].role = "tool" =>
                \E j \in 1..(i - 1) :
                    /\ sent[j].role = "assistant"
                    /\ sent[i].tool_call_id \in CallIds(sent[j])

====
